---- MODULE Spec2Model ----
(***************************************************************************)
(* Model of the topology builders (pruned_hopfield, hopfield_lattice) of   *)
(* code/hopfield_models.py and of the search loop (metropolis_hastings) of *)
(* code/hopfield_mcmc.py.                                                  *)
(*                                                                         *)
(* Weights are kept as the integer Hebbian sums  SUM_k s_k[i]*s_k[j]       *)
(* (the trained weight times the number M of patterns), so that the order  *)
(* of magnitudes and the zero weights are exactly those of the program.    *)
(***************************************************************************)
EXTENDS Integers, Sequences, FiniteSets, TLC

\* ---------------------------------------------------------------- bounds
MaxN == 3          \* largest number of nodes
MaxM == 2          \* largest number of stored patterns
MaxEdges == 3      \* pruned_hopfield: largest edge count of the base graph
MaxIter == 6       \* metropolis_hastings: largest max_iter
MaxMoves == 1      \* metropolis_hastings: largest moves_per_iter
MaxSaveFreq == 2   \* metropolis_hastings: largest save_freq with snapshots on

\* the value None of a graph argument or of a model not yet built
None == [adj |-> <<>>, weights |-> <<>>]

VARIABLES
  pc,            \* position of the running function
  patterns,      \* the stored patterns (sequence of 0/1 vectors indexed 0..N-1)
  graph,         \* pruned_hopfield: the graph argument (None or a trained model)
  edges,         \* pruned_hopfield: the target edge count
  shuffle,       \* pruned_hopfield: the shuffle argument
  hop_net,       \* pruned_hopfield: the model being pruned
  pq,            \* pruned_hopfield: the priority queue (a heapq list)
  todo,          \* pruned_hopfield: iterations left of the removal loop
  k,             \* hopfield_lattice: the number of nearest neighbors
  intersection,  \* hopfield_lattice: the intersection argument
  hop_graph,     \* hopfield_lattice: the model being built
  neighbors,     \* hopfield_lattice: the nearest-neighbor sets, one per node
  li,            \* hopfield_lattice: the node the edge loop has reached
  num_edges_arg, \* metropolis_hastings: the num_edges argument
  max_iter,      \* metropolis_hastings: the max_iter argument
  moves_per_iter,    \* metropolis_hastings: the moves_per_iter argument
  save_intermediate, \* metropolis_hastings: the save_intermediate argument
  save_freq,     \* metropolis_hastings: the save_freq argument
  curr_score,    \* metropolis_hastings: score of the current model
  prop,          \* metropolis_hastings: the proposal of the last iteration
  prop_score,    \* metropolis_hastings: its score
  best_graph,    \* metropolis_hastings: the running best model
  best_score,    \* metropolis_hastings: its score
  run_count,     \* metropolis_hastings: iterations completed
  fp_count,      \* metropolis_hastings: consecutive rejections
  perf_hist,     \* metropolis_hastings: history of curr_perf
  cost_hist,     \* metropolis_hastings: history of curr_cost
  in_group_hist  \* metropolis_hastings: history of prop_in_group_edges

pruneVars == <<graph, edges, shuffle, hop_net, pq, todo>>
latticeVars == <<k, intersection, neighbors, li>>
mhArgs == <<num_edges_arg, max_iter, moves_per_iter, save_intermediate, save_freq>>
mhLoop == <<prop, prop_score, best_graph, best_score, run_count, fp_count,
            perf_hist, cost_hist, in_group_hist>>
mhVars == <<mhArgs, curr_score, mhLoop>>
vars == <<pc, patterns, pruneVars, latticeVars, hop_graph, mhVars>>

\* ------------------------------------------------------- graphs and training
Nodes(N) == 0 .. (N - 1)

NumNodes(ps) == Cardinality(DOMAIN ps[1])

\* a pattern bit 0/1 mapped to -1/+1
Bipolar(b) == 2 * b - 1

RECURSIVE HebbSum(_, _, _, _)
HebbSum(ps, i, j, m) ==
  IF m = 0 THEN 0
  ELSE Bipolar(ps[m][i]) * Bipolar(ps[m][j]) + HebbSum(ps, i, j, m - 1)

\* the trained weight of the pair (i, j); self-weights are always 0
Hebb(ps, i, j) == IF i = j THEN 0 ELSE HebbSum(ps, i, j, Len(ps))

ZeroMatrix(N) == [i \in Nodes(N) |-> [j \in Nodes(N) |-> 0]]

fully_connected(N) ==
  [i \in Nodes(N) |-> [j \in Nodes(N) |-> IF i = j THEN 0 ELSE 1]]

\* HopfieldGraph(graph, patterns) followed by train(): every existing edge
\* gets its Hebbian weight, every absent edge weight 0
train(adj, ps) ==
  [adj |-> adj,
   weights |-> [i \in DOMAIN adj |-> [j \in DOMAIN adj |->
                  IF adj[i][j] = 1 THEN Hebb(ps, i, j) ELSE 0]]]

\* the weights of the fully connected training, kept whatever the adjacency
full_weights(ps) ==
  [i \in Nodes(NumNodes(ps)) |-> [j \in Nodes(NumNodes(ps)) |-> Hebb(ps, i, j)]]

\* train_edge(i, j): recompute the weight of the pair (i, j) only
train_edge(g, ps, i, j) ==
  [g EXCEPT !.weights = [a \in DOMAIN g.adj |-> [b \in DOMAIN g.adj |->
      IF (a = i /\ b = j) \/ (a = j /\ b = i)
      THEN (IF g.adj[a][b] = 1 THEN Hebb(ps, i, j) ELSE 0)
      ELSE g.weights[a][b]]]]

\* num_edges(): the number of pairs i < j with adj[i][j] = 1
num_edges(g) ==
  Cardinality({e \in (DOMAIN g.adj) \X (DOMAIN g.adj) :
                 e[1] < e[2] /\ g.adj[e[1]][e[2]] = 1})

copy(g) == [adj |-> g.adj, weights |-> g.weights]

Abs(x) == IF x < 0 THEN -x ELSE x

\* symmetric 0/1 matrices with a zero diagonal
SymAdjs(N) ==
  {a \in [Nodes(N) -> [Nodes(N) -> {0, 1}]] :
     \A i, j \in Nodes(N) : a[i][j] = a[j][i] /\ a[i][i] = 0}

PatternSeqs(N, M) == [1 .. M -> [Nodes(N) -> {0, 1}]]

\* the step patterns 0..01..1 with t >= 1 leading zeros, in non-decreasing
\* order of t: a small family that gives equal, zero and distinct magnitudes
StepVec(N, t) == [i \in Nodes(N) |-> IF i < t THEN 0 ELSE 1]

StepPatterns(N, M) ==
  {[m \in 1 .. M |-> StepVec(N, ts[m])] :
     ts \in {f \in [1 .. M -> 1 .. N] : \A a, b \in 1 .. M : a <= b => f[a] >= f[b]}}

\* ------------------------------------------------------------------ heapq
\* a reversed comparison (a max-heap)
EntryGt(a, b) == a.priority > b.priority

\* Entry.__lt__: entries compare on priority alone
EntryLt(a, b) == a.priority < b.priority

\* positions are the 0-based positions of heapq; heap[p + 1] is position p
RECURSIVE SiftDownLoop(_, _, _, _)
SiftDownLoop(heap, startpos, pos, newitem) ==
  IF pos > startpos
  THEN LET parentpos == (pos - 1) \div 2
           parent == heap[parentpos + 1]
       IN IF EntryLt(newitem, parent)
          THEN SiftDownLoop([heap EXCEPT ![pos + 1] = parent], startpos, parentpos, newitem)
          ELSE [heap EXCEPT ![pos + 1] = newitem]
  ELSE [heap EXCEPT ![pos + 1] = newitem]

siftdown(heap, startpos, pos) == SiftDownLoop(heap, startpos, pos, heap[pos + 1])

RECURSIVE SiftUpLoop(_, _, _, _)
SiftUpLoop(heap, startpos, pos, newitem) ==
  LET endpos == Len(heap)
      childpos == 2 * pos + 1
  IN IF childpos < endpos
     THEN LET rightpos == childpos + 1
              c == IF rightpos < endpos /\ ~EntryLt(heap[childpos + 1], heap[rightpos + 1])
                   THEN rightpos ELSE childpos
          IN SiftUpLoop([heap EXCEPT ![pos + 1] = heap[c + 1]], startpos, c, newitem)
     ELSE siftdown([heap EXCEPT ![pos + 1] = newitem], startpos, pos)

siftup(heap, pos) == SiftUpLoop(heap, pos, pos, heap[pos + 1])

RECURSIVE HeapifyLoop(_, _)
HeapifyLoop(x, i) == IF i < 0 THEN x ELSE HeapifyLoop(siftup(x, i), i - 1)

heapify(x) == HeapifyLoop(x, (Len(x) \div 2) - 1)

\* heappop of a non-empty heap: the popped entry and the heap left
heappop(heap) ==
  LET lastelt == heap[Len(heap)]
      rest == SubSeq(heap, 1, Len(heap) - 1)
  IN IF rest # <<>>
     THEN [ret |-> rest[1], heap |-> siftup([rest EXCEPT ![1] = lastelt], 0)]
     ELSE [ret |-> lastelt, heap |-> rest]

\* ---------------------------------------------------------- pruned_hopfield
\* the trained base graph the pruning starts from
BaseNet ==
  IF graph = None THEN train(fully_connected(NumNodes(patterns)), patterns)
  ELSE graph

\* the existing edges of the lower triangle, in the order of the two loops
RECURSIVE RowEntries(_, _, _)
RowEntries(g, i, j) ==
  IF j = i THEN <<>>
  ELSE (IF g.adj[i][j] = 0 THEN <<>>
        ELSE <<[item |-> <<i, j>>, priority |-> Abs(g.weights[i][j])]>>)
       \o RowEntries(g, i, j + 1)

RECURSIVE AllEntries(_, _)
AllEntries(g, i) ==
  IF i = Cardinality(DOMAIN g.adj) THEN <<>>
  ELSE RowEntries(g, i, 0) \o AllEntries(g, i + 1)

Perms(s) ==
  {p \in [1 .. Len(s) -> 1 .. Len(s)] : \A a, b \in 1 .. Len(s) : a # b => p[a] # p[b]}

\* the orders random.shuffle can leave the list in
Shuffles(s) == {[n \in 1 .. Len(s) |-> s[p[n]]] : p \in Perms(s)}

\* a loop that stops one removal early
NumRemovalsShort(g, target) ==
  IF num_edges(g) - target - 1 < 0 THEN 0 ELSE num_edges(g) - target - 1

\* range(hop_net.num_edges() - edges): the number of loop iterations
NumRemovals(g, target) ==
  IF num_edges(g) - target < 0 THEN 0 ELSE num_edges(g) - target

\* only the writes of lines 108 and 110: one direction of the edge
RemoveEdgeOneWay(g, edge) ==
  [adj |-> [g.adj EXCEPT ![edge[1]][edge[2]] = 0],
   weights |-> [g.weights EXCEPT ![edge[1]][edge[2]] = 0]]

\* the four writes of the loop body for the popped edge
RemoveEdge(g, edge) ==
  [adj |-> [g.adj EXCEPT ![edge[1]][edge[2]] = 0, ![edge[2]][edge[1]] = 0],
   weights |-> [g.weights EXCEPT ![edge[1]][edge[2]] = 0, ![edge[2]][edge[1]] = 0]]

PruneIdle ==
  /\ graph = None /\ edges = 0 /\ shuffle = FALSE
  /\ hop_net = None /\ pq = <<>> /\ todo = 0

LatticeIdle ==
  /\ k = 0 /\ intersection = FALSE /\ neighbors = <<>> /\ li = 0

MHIdle ==
  /\ num_edges_arg = 0 /\ max_iter = 0 /\ moves_per_iter = 0
  /\ save_intermediate = FALSE /\ save_freq = 0
  /\ curr_score = 0 /\ prop = None /\ prop_score = 0
  /\ best_graph = None /\ best_score = 0 /\ run_count = 0 /\ fp_count = 0
  /\ perf_hist = <<>> /\ cost_hist = <<>> /\ in_group_hist = <<>>

InitPrune ==
  /\ pc = "start"
  /\ \E N \in 2 .. MaxN, M \in 1 .. MaxM :
       /\ patterns \in StepPatterns(N, M)
       /\ graph \in {None} \cup {train(a, patterns) : a \in SymAdjs(N)}
  /\ num_edges(BaseNet) <= MaxEdges
  /\ edges \in -1 .. (num_edges(BaseNet) + 1)
  /\ LatticeIdle /\ hop_graph = None /\ MHIdle
  /\ shuffle \in BOOLEAN
  /\ hop_net = None
  /\ pq = <<>>
  /\ todo = 0

\* lines 85-105: train or copy, fill the queue, shuffle, heapify
PruneBuild ==
  /\ pc = "start"
  /\ hop_net' = copy(BaseNet)
  /\ \E s \in (IF shuffle THEN Shuffles(AllEntries(BaseNet, 0))
                          ELSE {AllEntries(BaseNet, 0)}) :
       pq' = heapify(s)
  /\ todo' = NumRemovals(BaseNet, edges)
  /\ pc' = "loop"
  /\ UNCHANGED <<patterns, graph, edges, shuffle, latticeVars, hop_graph, mhVars>>

\* lines 105-111: one iteration of the removal loop
PruneRemove ==
  /\ pc = "loop"
  /\ todo > 0
  /\ pq # <<>>
  /\ hop_net' = RemoveEdge(hop_net, heappop(pq).ret.item)
  /\ pq' = heappop(pq).heap
  /\ todo' = todo - 1
  /\ UNCHANGED <<pc, patterns, graph, edges, shuffle, latticeVars, hop_graph, mhVars>>

\* line 106 on an empty queue: heappop raises IndexError
PruneRaise ==
  /\ pc = "loop"
  /\ todo > 0
  /\ pq = <<>>
  /\ pc' = "IndexError"
  /\ UNCHANGED <<patterns, pruneVars, latticeVars, hop_graph, mhVars>>

\* lines 112-113: the loop is over, the model is returned
PruneReturn ==
  /\ pc = "loop"
  /\ todo = 0
  /\ pc' = "returned"
  /\ UNCHANGED <<patterns, pruneVars, latticeVars, hop_graph, mhVars>>

NextPrune == PruneBuild \/ PruneRemove \/ PruneRaise \/ PruneReturn

SpecPrune == InitPrune /\ [][NextPrune]_vars

\* --------------------------------------------------------- hopfield_lattice
RECURSIVE NeighborEntries(_, _, _)
NeighborEntries(ps, i, j) ==
  IF j = NumNodes(ps) THEN <<>>
  ELSE <<[item |-> j, priority |-> -Abs(full_weights(ps)[i][j])]>>
       \o NeighborEntries(ps, i, j + 1)

\* the items of n successive heappops
RECURSIVE PopItems(_, _)
PopItems(heap, n) ==
  IF n = 0 THEN {}
  ELSE {heappop(heap).ret.item} \cup PopItems(heappop(heap).heap, n - 1)

\* the set of the kk nearest neighbors of node i
node_neighbors(ps, i, kk) == PopItems(heapify(NeighborEntries(ps, i, 0)), kk)

nearest_neighbors(ps, kk) ==
  [i \in Nodes(NumNodes(ps)) |-> node_neighbors(ps, i, kk)]

make_edge(g, ps, i, j) ==
  train_edge([g EXCEPT !.adj[i][j] = 1, !.adj[j][i] = 1], ps, i, j)

\* the inner loop over neighbors[i]
RECURSIVE MakeEdges(_, _, _, _, _, _)
MakeEdges(g, ps, nb, inter, i, js) ==
  IF js = {} THEN g
  ELSE LET j == CHOOSE x \in js : TRUE
       IN MakeEdges(IF inter /\ i \notin nb[j] THEN g ELSE make_edge(g, ps, i, j),
                    ps, nb, inter, i, js \ {j})

InitLattice ==
  /\ pc = "lattice_start"
  /\ \E N \in 2 .. MaxN, M \in 1 .. MaxM :
       /\ patterns \in PatternSeqs(N, M)
       /\ k \in 1 .. (N - 1)
  /\ intersection \in BOOLEAN
  /\ neighbors = <<>>
  /\ li = 0
  /\ hop_graph = None
  /\ PruneIdle /\ MHIdle

\* lines 226-229: the empty model, trained, and the neighbor sets
LatticeBuild ==
  /\ pc = "lattice_start"
  /\ hop_graph' = train(ZeroMatrix(NumNodes(patterns)), patterns)
  /\ neighbors' = nearest_neighbors(patterns, k)
  /\ li' = 0
  /\ pc' = "lattice_loop"
  /\ UNCHANGED <<patterns, pruneVars, k, intersection, mhVars>>

\* lines 231-237: one iteration of the outer loop
LatticeNode ==
  /\ pc = "lattice_loop"
  /\ li < NumNodes(patterns)
  /\ hop_graph' = MakeEdges(hop_graph, patterns, neighbors, intersection, li, neighbors[li])
  /\ li' = li + 1
  /\ UNCHANGED <<pc, patterns, pruneVars, k, intersection, neighbors, mhVars>>

\* lines 238-239
LatticeReturn ==
  /\ pc = "lattice_loop"
  /\ li = NumNodes(patterns)
  /\ pc' = "lattice_returned"
  /\ UNCHANGED <<patterns, pruneVars, latticeVars, hop_graph, mhVars>>

NextLattice == LatticeBuild \/ LatticeNode \/ LatticeReturn

SpecLattice == InitLattice /\ [][NextLattice]_vars

\* either builder
SpecBuilders == (InitPrune \/ InitLattice) /\ [][NextPrune \/ NextLattice]_vars

\* ------------------------------------------------------ metropolis_hastings
CostMean == 5000   \* cost_mean of score
CostStd == 3000    \* cost_std of score
Runs == 5          \* runs of hopfield_performance

\* hopfield_performance(graph, ..., runs = 5) is random: the number of the
\* five runs that retrieve, two of the values it can take
PerfVals == {0, 3}

\* The term dist + epsilon of an edge in stress_energy.  The coordinates come
\* from a PCA outside the program; the nodes are laid out on a line here.
EdgeTerm(i, j) == 1000 * Abs(i - j)

RECURSIVE SumTerms(_)
SumTerms(es) ==
  IF es = {} THEN 0
  ELSE LET e == CHOOSE x \in es : TRUE
       IN EdgeTerm(e[1], e[2]) + SumTerms(es \ {e})

\* stress_energy: the sum over the connected pairs j < i
wiring_cost_energy(g) ==
  SumTerms({e \in (DOMAIN g.adj) \X (DOMAIN g.adj) :
              e[2] < e[1] /\ g.adj[e[1]][e[2]] # 0})

\* score with alpha = .5, times 2 * Runs * CostStd so that it is an integer:
\*   alpha * perf + (1 - alpha) * -((cost - cost_mean) / cost_std)
score(perf, cost) == CostStd * perf + Runs * (CostMean - cost)

\* the floor .4 of the warm start, on the same scale
ScoreFloor == 4 * CostStd

\* an acceptance that also takes a proposal of equal score
acceptTies(curr, prp) == prp >= curr

\* accept(curr, prop): only a strictly better proposal is accepted
accept(curr, prp) == prp > curr

\* a best update that also takes a score equal to the best
BestImprovedTies(cscore, best) == cscore >= best

\* line 102: the test of the best update
BestImproved(cscore, best) == cscore > best

\* a loop test that lets one more iteration in
LoopTestLe(count, maxi) == count <= maxi

\* line 65: the test of the main loop
LoopTest(count, maxi) == count < maxi

\* random_edges(N, e): any graph of N nodes and e edges
random_edges(N, e) ==
  {a \in SymAdjs(N) : num_edges([adj |-> a, weights |-> a]) = e}

\* random_edge(g): an existing edge, in either direction
random_edge(g) ==
  {e \in (DOMAIN g.adj) \X (DOMAIN g.adj) : g.adj[e[1]][e[2]] = 1}

\* rewire(i, j, g): the edge (i, j) is moved to (i, x) for a node x that i is
\* not linked to, and the new edge is trained; the edge count is kept
rewire(g, ps, i, j) ==
  LET free == {x \in DOMAIN g.adj : x # i /\ g.adj[i][x] = 0}
  IN IF g.adj[i][j] = 1 /\ free # {}
     THEN {make_edge(RemoveEdge(g, <<i, j>>), ps, i, x) : x \in free}
     ELSE {g}

\* lines 67-74: the copies of src after n rewiring moves, each of an edge
\* drawn from src
RECURSIVE Proposals(_, _, _, _)
Proposals(src, pg, ps, n) ==
  IF n = 0 THEN {pg}
  ELSE UNION {Proposals(src, q, ps, n - 1) :
                q \in UNION {rewire(pg, ps, e[1], e[2]) : e \in random_edge(src)}}

\* prop_in_group_edges(g): the edges whose two nodes fire alike in every
\* pattern, or opposite in every pattern
SameGroup(ps, i, j) ==
  \/ \A m \in 1 .. Len(ps) : ps[m][i] = ps[m][j]
  \/ \A m \in 1 .. Len(ps) : ps[m][i] # ps[m][j]

prop_in_group_edges(g, ps) ==
  Cardinality({e \in (DOMAIN g.adj) \X (DOMAIN g.adj) :
                 e[1] < e[2] /\ g.adj[e[1]][e[2]] = 1 /\ SameGroup(ps, e[1], e[2])})

\* the names bound in metropolis_hastings when line 109 runs
BoundNames ==
  {"patterns", "num_edges", "fp_threshold", "max_iter", "moves_per_iter", "beta",
   "hop_graph", "alpha", "save_intermediate", "save_freq", "save_path",
   "run_count", "prop", "prop_score", "curr_score", "best_graph", "best_score"}

\* line 108: the snapshot is due after this iteration
SaveDue(saving, freq, count) == saving /\ count % freq = 0

\* the pattern sets the search is run on: one pattern on three nodes
MHPatterns == {<<StepVec(3, 2)>>}

InitMH ==
  /\ pc = "mh_start"
  /\ patterns \in MHPatterns
  /\ num_edges_arg = 2
  /\ max_iter \in 0 .. MaxIter
  /\ moves_per_iter \in 1 .. MaxMoves
  /\ \/ save_intermediate = FALSE /\ save_freq = 10000
     \/ save_intermediate = TRUE /\ save_freq \in 1 .. MaxSaveFreq
  /\ hop_graph = None
  /\ curr_score = 0 /\ prop = None /\ prop_score = 0
  /\ best_graph = None /\ best_score = 0 /\ run_count = 0 /\ fp_count = 0
  /\ perf_hist = <<>> /\ cost_hist = <<>> /\ in_group_hist = <<>>
  /\ PruneIdle /\ LatticeIdle

\* lines 43-45 and 53-55: a random graph of num_edges edges, trained, and
\* lines 48 and 56: its score
NewRandomModel ==
  /\ \E a \in random_edges(NumNodes(patterns), num_edges_arg) :
       hop_graph' = train(a, patterns)
  /\ \E perf \in PerfVals :
       curr_score' = score(perf, wiring_cost_energy(hop_graph'))

\* lines 42-49
MHStart ==
  /\ pc = "mh_start"
  /\ NewRandomModel
  /\ pc' = "mh_warm"
  /\ UNCHANGED <<patterns, pruneVars, latticeVars, mhArgs, mhLoop>>

\* lines 51-57: one iteration of the warm-start loop
MHWarm ==
  /\ pc = "mh_warm"
  /\ curr_score < ScoreFloor
  /\ NewRandomModel
  /\ UNCHANGED <<pc, patterns, pruneVars, latticeVars, mhArgs, mhLoop>>

\* lines 59-63
MHBegin ==
  /\ pc = "mh_warm"
  /\ ~(curr_score < ScoreFloor)
  /\ best_graph' = hop_graph
  /\ best_score' = curr_score
  /\ run_count' = 0
  /\ fp_count' = 0
  /\ perf_hist' = <<>>
  /\ cost_hist' = <<>>
  /\ in_group_hist' = <<>>
  /\ pc' = "mh_loop"
  /\ UNCHANGED <<patterns, pruneVars, latticeVars, mhArgs, hop_graph, curr_score,
                 prop, prop_score>>

\* lines 65-110: one iteration of the main loop
MHIter ==
  /\ pc = "mh_loop"
  /\ LoopTest(run_count, max_iter)
  /\ \E p \in Proposals(hop_graph, copy(hop_graph), patterns, moves_per_iter),
        pperf \in PerfVals, curr_perf \in PerfVals :
       LET pscore == score(pperf, wiring_cost_energy(p))
           acc == accept(curr_score, pscore)
           cur == IF acc THEN p ELSE hop_graph
           curr_cost == wiring_cost_energy(cur)
           cscore == score(curr_perf, curr_cost)
       IN /\ prop' = p
          /\ prop_score' = pscore
          /\ hop_graph' = cur
          /\ fp_count' = IF acc THEN 0 ELSE fp_count + 1
          /\ curr_score' = cscore
          /\ perf_hist' = Append(perf_hist, curr_perf)
          /\ cost_hist' = Append(cost_hist, curr_cost)
          /\ in_group_hist' = IF run_count % 5 = 0
                              THEN Append(in_group_hist, prop_in_group_edges(cur, patterns))
                              ELSE in_group_hist
          /\ best_score' = IF BestImproved(cscore, best_score) THEN cscore ELSE best_score
          /\ best_graph' = IF BestImproved(cscore, best_score) THEN cur ELSE best_graph
  /\ run_count' = run_count + 1
  \* lines 108-110: filepath is no name of the function (the argument is
  \* save_path), so building the file name raises NameError
  /\ pc' = IF SaveDue(save_intermediate, save_freq, run_count') /\ "filepath" \notin BoundNames
           THEN "NameError" ELSE "mh_loop"
  /\ UNCHANGED <<patterns, pruneVars, latticeVars, mhArgs>>

\* line 111
MHReturn ==
  /\ pc = "mh_loop"
  /\ ~LoopTest(run_count, max_iter)
  /\ pc' = "mh_returned"
  /\ UNCHANGED <<patterns, pruneVars, latticeVars, hop_graph, mhVars>>

NextMH == MHStart \/ MHWarm \/ MHBegin \/ MHIter \/ MHReturn

SpecMH == InitMH /\ [][NextMH]_vars

\* -------------------------------------------------------------- properties
Pairs(g) == {e \in (DOMAIN g.adj) \X (DOMAIN g.adj) : e[1] < e[2]}

\* the edges of g, each once
EdgesOf(g) == {e \in Pairs(g) : g.adj[e[1]][e[2]] = 1}

WellFormed(g) ==
  \A i, j \in DOMAIN g.adj :
    /\ g.adj[i][j] = g.adj[j][i]
    /\ g.adj[i][j] = 0 => (g.weights[i][j] = 0 /\ g.weights[j][i] = 0)

\* C1: for a target k with 0 <= k <= E, E the edge count of the base graph,
\* the model pruned_hopfield returns has exactly k edges.
PrunedEdgeCount ==
  (pc = "returned" /\ 0 <= edges /\ edges <= num_edges(BaseNet))
    => Cardinality(EdgesOf(hop_net)) = edges

\* a supplied base graph of 3 edges pruned to 1
PrunedEdgeCountWitness ==
  /\ pc = "returned"
  /\ graph # None
  /\ num_edges(BaseNet) = 3
  /\ edges = 1
  /\ num_edges(hop_net) = 1

\* C2: with a negative target or a target above the edge count of the base
\* graph, pruned_hopfield fails and returns no model.
PruneRejectsBadTarget ==
  (edges < 0 \/ edges > num_edges(BaseNet)) => pc # "returned"

\* C3: after every step of the removal loop and in the model pruned_hopfield
\* returns, and in the model hopfield_lattice returns, the adjacency matrix
\* is symmetric and every absent edge has weight 0 in both directions.
BuildersWellFormed ==
  /\ pc \in {"loop", "returned"} => WellFormed(hop_net)
  /\ pc = "lattice_returned" => WellFormed(hop_graph)

\* in the middle of the removal loop: an edge removed, others left, more to go
BuildersWellFormedWitness ==
  /\ pc = "loop"
  /\ todo > 0
  /\ num_edges(hop_net) < num_edges(BaseNet)
  /\ num_edges(hop_net) > 0

\* C4: in hopfield_lattice the set selected for a node i holds k nodes, none
\* of them i, and the returned graph has no self-loop.
LatticeNoSelfNeighbor ==
  pc = "lattice_returned" =>
    \A i \in DOMAIN neighbors :
      /\ i \notin neighbors[i]
      /\ Cardinality(neighbors[i]) = k
      /\ hop_graph.adj[i][i] = 0

\* C5: hopfield_lattice with k = N - 1 returns the fully connected graph.
LatticeFullAtMaxK ==
  (pc = "lattice_returned" /\ k = NumNodes(patterns) - 1 /\ ~intersection) =>
    \A i, j \in DOMAIN hop_graph.adj : i # j => hop_graph.adj[i][j] = 1

\* C6: with max_iter = 0 the main loop runs no iteration: the model of the
\* warm start is the current and the best model, and the three histories
\* are empty, up to and including the return.
MHZeroIter ==
  (pc \in {"mh_loop", "mh_returned", "NameError"} /\ max_iter = 0) =>
    /\ pc # "NameError"
    /\ run_count = 0
    /\ best_graph = hop_graph
    /\ best_score = curr_score
    /\ ~(curr_score < ScoreFloor)
    /\ hop_graph = train(hop_graph.adj, patterns)
    /\ num_edges(hop_graph) = num_edges_arg
    /\ prop = None
    /\ perf_hist = <<>> /\ cost_hist = <<>> /\ in_group_hist = <<>>

\* returned with max_iter = 0, snapshots on at every iteration
MHZeroIterWitness ==
  /\ pc = "mh_returned" /\ max_iter = 0
  /\ save_intermediate /\ save_freq = 1
  /\ best_graph # None

\* C7: an iteration of the main loop changes the current model only by
\* taking the proposal, and takes it only when proposal score > current
\* score; otherwise the current model is exactly what it was.
MHRejectionFrame ==
  [][(pc = "mh_loop" /\ run_count' = run_count + 1) =>
       IF prop_score' > curr_score
       THEN hop_graph' = prop'
       ELSE hop_graph' = hop_graph]_vars

\* a proposal that differs from the current model was rejected, on a score
\* equal to the current one
MHRejectionFrameWitness ==
  /\ pc = "mh_loop"
  /\ fp_count = 2
  /\ prop # None /\ prop # hop_graph
  /\ prop_score <= curr_score

\* C8: with snapshots on, the main loop still runs all max_iter iterations
\* and returns.
SnapshotNoFeedback ==
  (save_intermediate /\ pc \notin {"mh_start", "mh_warm", "mh_loop"}) =>
    (pc = "mh_returned" /\ run_count = max_iter)

\* C9: in the returned model every surviving edge has the weight it had in
\* the trained base graph, of a magnitude at least that of every removed edge.
PruneKeepsLargest ==
  pc = "returned" =>
    \A s \in EdgesOf(hop_net) :
      /\ hop_net.weights[s[1]][s[2]] = BaseNet.weights[s[1]][s[2]]
      /\ hop_net.weights[s[2]][s[1]] = BaseNet.weights[s[2]][s[1]]
      /\ \A r \in EdgesOf(BaseNet) \ EdgesOf(hop_net) :
           Abs(hop_net.weights[s[1]][s[2]]) >= Abs(BaseNet.weights[r[1]][r[2]])

\* edges of two magnitudes: a smaller one removed, a larger one kept
PruneKeepsLargestWitness ==
  /\ pc = "returned"
  /\ \E s \in EdgesOf(hop_net), r \in EdgesOf(BaseNet) \ EdgesOf(hop_net) :
       Abs(hop_net.weights[s[1]][s[2]]) > Abs(BaseNet.weights[r[1]][r[2]])

\* C10: the main loop ends by returning after exactly max_iter iterations,
\* and after n iterations the performance and cost histories have n entries
\* and the structural history ceil(n / 5).
MHRunsMaxIter ==
  /\ pc \in {"mh_returned", "NameError"} =>
       (pc = "mh_returned" /\ run_count = max_iter)
  /\ pc \in {"mh_loop", "mh_returned", "NameError"} =>
       /\ Len(perf_hist) = run_count
       /\ Len(cost_hist) = run_count
       /\ Len(in_group_hist) = (run_count + 4) \div 5

\* the history lengths alone, which hold on every run
MHHistoryLengths ==
  pc \in {"mh_loop", "mh_returned", "NameError"} =>
    /\ Len(perf_hist) = run_count
    /\ Len(cost_hist) = run_count
    /\ Len(in_group_hist) = (run_count + 4) \div 5

\* C11: across the main loop the best score never decreases and, at the end
\* of every iteration, is at least the recomputed current score; when it
\* increases the best model becomes the current model of that iteration, and
\* otherwise the best model is exactly what it was.
MHBestTracking ==
  [][pc = "mh_loop" =>
       /\ best_score' >= best_score
       /\ best_score' >= curr_score'
       /\ IF best_score' > best_score
          THEN best_graph' = hop_graph' /\ best_score' = curr_score'
          ELSE best_graph' = best_graph]_vars

\* the current model has moved on from the best model: a proposal was just
\* accepted, its recomputed score is below the best score
MHBestTrackingWitness ==
  /\ pc = "mh_loop"
  /\ run_count >= 2
  /\ fp_count = 0
  /\ best_graph # hop_graph
  /\ best_score > curr_score

====
